---- MODULE Spec2Model ----
(***************************************************************************)
(* The environmental feature-fusion pipeline of the NASA scripts: the      *)
(* download scripts of scripts/nasa (SMAP, MODIS task and AppEEARS result, *)
(* IMERG, Landsat) write the per-source artifacts and                      *)
(* scripts/nasa/preprocess_data.py reads them, joins the series on a       *)
(* daily base calendar, derives features and filters rows.                 *)
(*                                                                         *)
(* Numbers are fixed point.  A date is a day number, day 1 being           *)
(* 2025-07-01, the first day of the fixed date range.  Vegetation indices  *)
(* are in thousandths, soil moisture in units of 1/1680 (so that the mean  *)
(* of up to 7 multiples of 420 is exact), precipitation in mm.  A missing  *)
(* cell (pandas NaN) is the value NaN, which no observation takes.         *)
(***************************************************************************)
EXTENDS Integers, Sequences, FiniteSets, TLC

\* ---------------------------------------------------------------- bounds
\* Days of the fixed date range (95 in the source, 2025-07-01..2025-10-03).
NumDays == 4
\* Days between two synthetic vegetation-index observations (16 in the source).
Cadence == 3
\* Entries of one CMR answer (page_size 20 in the source).
MaxEntries == 2
\* Days of the calendars the alignment alone is applied to.
AlignDays == 3
\* Rows of the long tables the rolling aggregates are applied to.
RollLen == 8
\* Days of the joined tables the training script's preparation is applied to.
TrainDays == 3
\* Runs of download_imerg.py and download_landsat.py before preprocessing.
MaxRuns == 2
\* Class directories of the image dataset.
MaxClasses == 2

\* Values the unseeded generators draw from.
SoilVals == {420}
PrecipVals == {5}
NdviVals == {500, 600}
SimCloudVals == {10}
\* Of a CMR entry: the day of its time_start (day 0 is before the date range)
\* and its clock part, and its cloud_cover when it has the field.
SceneDays == {0, 1}
TodVals == {1}
EntryCloud == {10, 40}

\* ------------------------------------------------------------- constants
NaN == -1
\* the 'source' cell of a synthetic batch, 'simulated'
Simulated == 1
\* rolling(7, min_periods=1)
Window == 7
MinPeriods == 1
\* dropna(thresh=len(columns) - 2)
MaxMissing == 2
\* cloud cover below which a scene is kept
CloudLimit == 30
\* scenes[:10] stored in the metadata
MaxStoredScenes == 10
\* timeout= of the CMR, GES DISC and AppEEARS task requests, in seconds
SearchTimeout == 30
\* timeout= of the AppEEARS bundle download
BundleTimeout == 300
\* requests.get without timeout=: the call waits as long as the server does
NoTimeout == 0
\* sys.exit(1), and the status of an interpreter ended by an exception
ExitFailure == 1
ExitOk == 0

VARIABLES
    pc,          \* the script run next, each once and in this order: "smap",
                 \* "modis", "appeears", "imerg", "download" (download_landsat.py),
                 \* "preprocess"; "done" after preprocess_data.py
    disk,        \* the artifacts under data/*/raw
    smap_df,     \* what load_smap_data returned
    modis_df,    \* what load_modis_data returned
    imerg_df,    \* what load_imerg_data returned
    landsat_df,  \* what load_landsat_data returned
    base,        \* merge_datasets: the base table (lines 156-163)
    joined,      \* merge_datasets: the table just before the completeness filter
    merged,      \* merge_datasets: the returned table, or None
    csv,         \* data/processed/merged_features.csv, or None
    first_csv,   \* merged_features.csv as the first of two runs left it, or None
    proc,        \* the script process that ran last
    align,       \* the temporal alignment applied to one calendar and one series
    fuse,        \* the derived features and the filter applied to one joined table
    train,       \* train_model.py: prepare_features applied to one fused table
    fetch,       \* download_imerg.py and download_landsat.py run again and again
    disease      \* one run of model-training/train_disease_model.py

runVars ==
    <<pc, disk, smap_df, modis_df, imerg_df, landsat_df, base, joined, merged, csv,
      first_csv, proc>>

vars == <<runVars, align, fuse, train, fetch, disease>>

\* ---------------------------------------------------------------- tables
\* A DataFrame: its column names in order and its rows, each a function from
\* the column names to cells.
DF(cols, rows) == [kind |-> "df", cols |-> cols, rows |-> rows]
EmptyDF == DF(<<>>, <<>>)
None == [kind |-> "none", cols |-> <<>>, rows |-> <<>>]

Range(s) == {s[i] : i \in 1..Len(s)}

HasCol(df, c) == c \in Range(df.cols)

\* DataFrame.empty
IsEmpty(df) == Len(df.rows) = 0 \/ Len(df.cols) = 0

IsNa(v) == v = NaN

\* dt.dayofyear and dt.month of day d (day 1 is 2025-07-01, day 182 of the year)
DayOfYear(d) == 181 + d

Month(d) ==
    IF d <= 0 THEN 6
    ELSE IF d <= 31 THEN 7
    ELSE IF d <= 62 THEN 8
    ELSE IF d <= 92 THEN 9
    ELSE 10

\* pd.date_range(start='2025-07-01', end='2025-10-03', freq='D')
DailyDates == [i \in 1..NumDays |-> i]

\* pd.date_range(start='2025-07-01', end='2025-10-03', freq='16D')
CadenceCount == ((NumDays - 1) \div Cadence) + 1
CadenceDates == [i \in 1..CadenceCount |-> 1 + (i - 1) * Cadence]

\* ------------------------------------- environment, network, processes
\* os.getenv of a variable: None when it is unset, else its value
Unset == "<unset>"

Envs ==
    [NASA_EARTHDATA_TOKEN : {Unset, "", "token-1"},
     EXPO_PUBLIC_NASA_EARTHDATA_TOKEN : {Unset, "", "token-2"}]

\* the environment of a script that reads no variable
NoEnv == [NASA_EARTHDATA_TOKEN |-> Unset, EXPO_PUBLIC_NASA_EARTHDATA_TOKEN |-> Unset]

\* truth value of a getenv result: None and '' are false
Truthy(v) == v # Unset /\ v # ""

\* os.getenv('NASA_EARTHDATA_TOKEN') alone
TokenOfFirstName(env) == env.NASA_EARTHDATA_TOKEN

\* os.getenv('NASA_EARTHDATA_TOKEN') or os.getenv('EXPO_PUBLIC_NASA_EARTHDATA_TOKEN')
TokenOf(env) ==
    IF Truthy(env.NASA_EARTHDATA_TOKEN) THEN env.NASA_EARTHDATA_TOKEN
    ELSE env.EXPO_PUBLIC_NASA_EARTHDATA_TOKEN

\* get_earthdata_token returns (it exits on `not token`)
HasToken(env) == Truthy(TokenOf(env))

\* What the remote does with a request: an HTTP response (status, how many
\* results its body lists, and whether they are valid: JSON objects as the
\* scripts read them with .get), a connection error, or no answer at all.
Replies ==
    [kind : {"http"}, status : {200, 202, 500}, results : {0, 1}, valid : {TRUE}]
        \cup [kind : {"http"}, status : {200}, results : {1}, valid : {FALSE}]
        \cup [kind : {"error", "silence"}, status : {0}, results : {0}, valid : {TRUE}]

\* A requests call with the given timeout= on a reply: "response" when it
\* returns one, "raise" when it raises (ConnectionError, or Timeout once the
\* timeout has passed), "blocked" when it never returns.
CallOutcome(kind, timeout) ==
    IF kind = "http" THEN "response"
    ELSE IF kind = "silence" /\ timeout = NoTimeout THEN "blocked"
    ELSE "raise"

\* the reply of a process that issued no request
NoReply == [kind |-> "none", status |-> 0, results |-> 0, valid |-> TRUE]

\* a request: its timeout= and the token of its Authorization header
Request(timeout, env) == [timeout |-> timeout, bearer |-> TokenOf(env)]

\* A script process: the environment it ran in, the requests it issued and
\* what the remote did with them, the directories and files it created or
\* wrote, and how it ended: "exit" with a status (uncaught: by an exception
\* no handler caught), or "blocked" in a call that never returns.
Process(script, env, requests, reply, wrote, end, status, uncaught) ==
    [script |-> script, env |-> env, requests |-> requests, reply |-> reply,
     wrote |-> wrote, end |-> end, status |-> status, uncaught |-> uncaught]

NoProcess == Process("none", NoEnv, <<>>, NoReply, {}, "none", ExitOk, FALSE)

\* get_earthdata_token without a token: the diagnostic and sys.exit(1)
TokenExit(script, env) ==
    Process(script, env, <<>>, NoReply, {}, "exit", ExitFailure, FALSE)

\* the function returned and the interpreter ended normally
Returned(script, env, requests, reply, wrote) ==
    Process(script, env, requests, reply, wrote, "exit", ExitOk, FALSE)

\* ------------------------------------------------- download_landsat.py
\* A CMR entry: time_start is a timestamp (day and clock part); the
\* cloud_cover field may be missing.
Entries ==
    [time_start : [day : SceneDays, tod : TodVals],
     has_cloud : {TRUE}, cloud_cover : EntryCloud]
    \cup
    [time_start : [day : SceneDays, tod : TodVals],
     has_cloud : {FALSE}, cloud_cover : {0}]

EntryLists == UNION {[1..n -> Entries] : n \in 0..MaxEntries}

\* entry.get('time_start') of an entry without the field: None
NoTimeStart == [day |-> NaN, tod |-> NaN]

\* scene['date'][:10], later parsed by pd.to_datetime: the day of a timestamp
DateOf(ts) == ts.day

\* lines 70-81: the scene built from an entry
SceneOf(entry) ==
    [date |-> entry.time_start,
     cloud_cover |-> IF entry.has_cloud THEN entry.cloud_cover ELSE 0]

\* the filter as `cloud_cover <= 30`
IsClearInclusive(scene) == scene.cloud_cover <= CloudLimit

\* line 91: the filter by cloud cover
IsClear(scene) == scene.cloud_cover < CloudLimit

\* lines 67-92: the scenes kept, in the order of the answer
RECURSIVE ClearScenes(_)
ClearScenes(entries) ==
    IF entries = <<>> THEN <<>>
    ELSE LET scene == SceneOf(Head(entries))
         IN  (IF IsClear(scene) THEN <<scene>> ELSE <<>>)
                 \o ClearScenes(Tail(entries))

\* lines 126-139: the NDVI record of a kept scene
NdviRecord(scene) ==
    LET month == Month(DateOf(scene.date))
        ndvi == IF 6 <= month /\ month <= 9
                THEN 600 + (100 - scene.cloud_cover) * 2
                ELSE 400 + (100 - scene.cloud_cover) * 2
    IN  [date |-> DateOf(scene.date), ndvi |-> ndvi, cloud_cover |-> scene.cloud_cover]

FirstN(s, n) == SubSeq(s, 1, IF Len(s) < n THEN Len(s) ELSE n)

NoFile == [exists |-> FALSE, status |-> "none", total_scenes |-> 0,
           clear_scenes |-> 0, scenes |-> <<>>]

\* lines 99-112: landsat_metadata.json of a successful search
SuccessMetadata(entries, scenes) ==
    [exists |-> TRUE, status |-> "none", total_scenes |-> Len(entries),
     clear_scenes |-> Len(scenes), scenes |-> FirstN(scenes, MaxStoredScenes)]

\* lines 162-178: create_fallback_metadata
FallbackMetadata ==
    [exists |-> TRUE, status |-> "no_data", total_scenes |-> 0,
     clear_scenes |-> 0, scenes |-> <<>>]

\* lines 117-139 raise on a kept scene without date (scene['date'] is None),
\* after landsat_metadata.json was written and before landsat_ndvi.json is
SceneRaises(scenes) == \E i \in 1..Len(scenes) : scenes[i].date = NoTimeStart

\* lines 56-160: what one search leaves on disk, given the answer; the
\* handler at 156-160 overwrites the metadata written at 111
LandsatDiskAfter(d, answer) ==
    IF answer.kind = "http" /\ answer.status = 200 /\ Len(answer.entries) > 0
    THEN LET scenes == ClearScenes(answer.entries)
             d1 == [d EXCEPT !.landsat_meta = SuccessMetadata(answer.entries, scenes)]
         IN  IF Len(scenes) > 0
             THEN IF SceneRaises(scenes)
                  THEN [d1 EXCEPT !.landsat_meta = FallbackMetadata]
                  ELSE [d1 EXCEPT !.landsat_ndvi =
                           [exists |-> TRUE,
                            data |-> [i \in 1..Len(scenes) |-> NdviRecord(scenes[i])]]]
             ELSE d1
    ELSE [d EXCEPT !.landsat_meta = FallbackMetadata]

Answers ==
    [kind : {"http"}, status : {200}, entries : EntryLists]
        \cup [kind : {"http"}, status : {500}, entries : {<<>>}]
        \cup [kind : {"exception"}, status : {0}, entries : {<<>>}]
        \cup [kind : {"silence"}, status : {0}, entries : {<<>>}]

\* no request issued, no answer
NoAnswer == [kind |-> "none", status |-> 0, entries |-> <<>>]

\* what the run created and wrote under data/landsat/raw
LandsatWrote(answer) ==
    {"data/landsat/raw", "landsat_metadata.json"}
        \cup (IF /\ answer.kind = "http" /\ answer.status = 200
                  /\ Len(ClearScenes(answer.entries)) > 0
                  /\ ~SceneRaises(ClearScenes(answer.entries))
               THEN {"landsat_ndvi.json"} ELSE {})

\* lines 33-160: search_landsat_scenes
LandsatRun(d, env, answer) ==
    IF ~HasToken(env) THEN [disk |-> d, proc |-> TokenExit("download_landsat", env)]
    ELSE [disk |-> LandsatDiskAfter(d, answer),
          proc |-> Returned("download_landsat", env, <<Request(SearchTimeout, env)>>,
                            [kind |-> answer.kind, status |-> answer.status,
                             results |-> Len(answer.entries),
                             valid |-> \A i \in 1..Len(answer.entries) :
                                          answer.entries[i].time_start # NoTimeStart],
                            LandsatWrote(answer))]

\* search_landsat_scenes with a token in the environment
SearchLandsat ==
    /\ pc = "download"
    /\ \E answer \in Answers, env \in Envs :
          /\ HasToken(env)
          /\ disk' = LandsatRun(disk, env, answer).disk
          /\ proc' = LandsatRun(disk, env, answer).proc
    /\ pc' = "preprocess"
    /\ UNCHANGED <<smap_df, modis_df, imerg_df, landsat_df, base, joined, merged, csv>>
    /\ UNCHANGED <<first_csv, align, fuse, train, fetch, disease>>

\* search_landsat_scenes without a token: get_earthdata_token exits
SearchLandsatNoToken ==
    /\ pc = "download"
    /\ \E env \in Envs : ~HasToken(env) /\ proc' = LandsatRun(disk, env, NoAnswer).proc
    /\ pc' = "preprocess"
    /\ UNCHANGED <<disk, smap_df, modis_df, imerg_df, landsat_df, base, joined, merged, csv>>
    /\ UNCHANGED <<first_csv, align, fuse, train, fetch, disease>>

\* ----------------------------------------------------- download_smap.py
\* lines 34-139: download_smap_granules.  The request at line 55 has no
\* timeout= and no handler around it; a run blocked in it holds up no other
\* script, each being a process of its own.  The granules of an answer
\* carry a data link; on a granule that is no object granule.get at line
\* 104 raises, outside any handler, after smap_granules.json was written.
SmapRun(d, env, reply) ==
    LET script == "download_smap"
        requests == <<Request(NoTimeout, env)>>
        outcome == CallOutcome(reply.kind, NoTimeout)
    IN  IF ~HasToken(env) THEN [disk |-> d, proc |-> TokenExit(script, env)]
        ELSE IF outcome = "blocked"
        THEN [disk |-> d,
              proc |-> Process(script, env, requests, reply, {}, "blocked", ExitOk, FALSE)]
        ELSE IF outcome = "raise"
        THEN [disk |-> d,
              proc |-> Process(script, env, requests, reply, {}, "exit", ExitFailure, TRUE)]
        ELSE IF reply.status # 200
        THEN [disk |-> d, proc |-> Returned(script, env, requests, reply, {})]
        ELSE IF reply.results = 0
        THEN [disk |-> [d EXCEPT !.smap = TRUE],
              proc |-> Returned(script, env, requests, reply,
                                {"data/smap/raw", "smap_metadata.json"})]
        ELSE IF ~reply.valid
        THEN [disk |-> d,
              proc |-> Process(script, env, requests, reply,
                               {"data/smap/raw", "smap_granules.json"},
                               "exit", ExitFailure, TRUE)]
        ELSE [disk |-> d,
              proc |-> Returned(script, env, requests, reply,
                                {"data/smap/raw", "smap_granules.json", "<granule_id>.json"})]

\* ---------------------------------------------------- download_modis.py
\* download_modis_ndvi posting the task once more after an exception
ModisRunRetrying(d, env, reply) ==
    LET script == "download_modis"
        requests == <<Request(SearchTimeout, env)>>
        outcome == CallOutcome(reply.kind, SearchTimeout)
    IN  IF ~HasToken(env) THEN [disk |-> d, proc |-> TokenExit(script, env)]
        ELSE IF outcome = "raise"
        THEN [disk |-> [d EXCEPT !.modis = TRUE, !.modis_status = "none"],
              proc |-> Returned(script, env, requests \o requests, reply,
                                {"data/modis/raw", "modis_metadata.json"})]
        ELSE IF reply.status = 202
        THEN [disk |-> d,
              proc |-> Returned(script, env, requests, reply,
                                {"data/modis/raw", "modis_task.json"})]
        ELSE [disk |-> [d EXCEPT !.modis = TRUE, !.modis_status = "failed"],
              proc |-> Returned(script, env, requests, reply,
                                {"data/modis/raw", "modis_metadata.json"})]

\* lines 41-142: download_modis_ndvi
ModisRun(d, env, reply) ==
    LET script == "download_modis"
        requests == <<Request(SearchTimeout, env)>>
        outcome == CallOutcome(reply.kind, SearchTimeout)
    IN  IF ~HasToken(env) THEN [disk |-> d, proc |-> TokenExit(script, env)]
        ELSE IF outcome = "raise"
        THEN [disk |-> [d EXCEPT !.modis = TRUE, !.modis_status = "none"],
              proc |-> Returned(script, env, requests, reply,
                                {"data/modis/raw", "modis_metadata.json"})]
        ELSE IF reply.status = 202
        THEN [disk |-> d,
              proc |-> Returned(script, env, requests, reply,
                                {"data/modis/raw", "modis_task.json"})]
        ELSE [disk |-> [d EXCEPT !.modis = TRUE, !.modis_status = "failed"],
              proc |-> Returned(script, env, requests, reply,
                                {"data/modis/raw", "modis_metadata.json"})]

\* ------------------------------------------ download_appeears_result.py
\* lines 27-120: download_appeears_results; a 200 response with results = 0
\* or not valid carries a body that is no zip archive (ZipFile raises, the
\* handler prints)
AppeearsRun(d, env, reply) ==
    LET script == "download_appeears_result"
        requests == <<Request(BundleTimeout, env)>>
        outcome == CallOutcome(reply.kind, BundleTimeout)
    IN  IF ~HasToken(env) THEN [disk |-> d, proc |-> TokenExit(script, env)]
        ELSE IF outcome = "raise" \/ reply.status # 200
        THEN [disk |-> d, proc |-> Returned(script, env, requests, reply, {"data/modis/raw"})]
        ELSE IF reply.results = 0 \/ ~reply.valid
        THEN [disk |-> d,
              proc |-> Returned(script, env, requests, reply,
                                {"data/modis/raw", "<request>.zip", "<request>/"})]
        ELSE [disk |-> [d EXCEPT !.modis = TRUE, !.modis_status = "success"],
              proc |-> Returned(script, env, requests, reply,
                                {"data/modis/raw", "<request>.zip", "<request>/",
                                 "modis_metadata.json"})]

\* ---------------------------------------------------- download_imerg.py
\* download_imerg_data whose handler prints and does not call
\* create_fallback_metadata
ImergRunHandlerPrints(d, env, reply) ==
    LET script == "download_imerg"
        requests == <<Request(SearchTimeout, env)>>
        outcome == CallOutcome(reply.kind, SearchTimeout)
    IN  IF ~HasToken(env) THEN [disk |-> d, proc |-> TokenExit(script, env)]
        ELSE IF outcome = "response" /\ reply.status = 200 /\ reply.results > 0
        THEN [disk |-> [d EXCEPT !.imerg = TRUE, !.imerg_status = "none"],
              proc |-> Returned(script, env, requests, reply,
                                {"data/imerg/raw", "imerg_metadata.json"}
                                    \cup (IF reply.valid THEN {"imerg_precip.json"} ELSE {}))]
        ELSE IF outcome = "raise"
        THEN [disk |-> d, proc |-> Returned(script, env, requests, reply, {})]
        ELSE [disk |-> [d EXCEPT !.imerg = TRUE, !.imerg_status = "no_data"],
              proc |-> Returned(script, env, requests, reply,
                                {"data/imerg/raw", "imerg_metadata.json"})]

\* lines 32-135: download_imerg_data and create_fallback_metadata.  On a
\* granule that is no object granule.get at line 97 raises after the
\* metadata of the success was written; the handler overwrites it.
ImergRun(d, env, reply) ==
    LET script == "download_imerg"
        requests == <<Request(SearchTimeout, env)>>
        outcome == CallOutcome(reply.kind, SearchTimeout)
    IN  IF ~HasToken(env) THEN [disk |-> d, proc |-> TokenExit(script, env)]
        ELSE IF /\ outcome = "response" /\ reply.status = 200 /\ reply.results > 0
                /\ reply.valid
        THEN [disk |-> [d EXCEPT !.imerg = TRUE, !.imerg_status = "none"],
              proc |-> Returned(script, env, requests, reply,
                                {"data/imerg/raw", "imerg_metadata.json", "imerg_precip.json"})]
        ELSE [disk |-> [d EXCEPT !.imerg = TRUE, !.imerg_status = "no_data"],
              proc |-> Returned(script, env, requests, reply,
                                {"data/imerg/raw", "imerg_metadata.json"})]

\* python download_smap.py
DownloadSmap ==
    /\ pc = "smap"
    /\ \E env \in Envs, reply \in Replies :
          LET r == SmapRun(disk, env, reply)
          IN  disk' = r.disk /\ proc' = r.proc
    /\ pc' = "modis"
    /\ UNCHANGED <<smap_df, modis_df, imerg_df, landsat_df, base, joined, merged, csv>>
    /\ UNCHANGED <<first_csv, align, fuse, train, fetch, disease>>

\* python download_modis.py
DownloadModis ==
    /\ pc = "modis"
    /\ \E env \in Envs, reply \in Replies :
          LET r == ModisRun(disk, env, reply)
          IN  disk' = r.disk /\ proc' = r.proc
    /\ pc' = "appeears"
    /\ UNCHANGED <<smap_df, modis_df, imerg_df, landsat_df, base, joined, merged, csv>>
    /\ UNCHANGED <<first_csv, align, fuse, train, fetch, disease>>

\* python download_appeears_result.py
DownloadAppeearsResult ==
    /\ pc = "appeears"
    /\ \E env \in Envs, reply \in Replies :
          LET r == AppeearsRun(disk, env, reply)
          IN  disk' = r.disk /\ proc' = r.proc
    /\ pc' = "imerg"
    /\ UNCHANGED <<smap_df, modis_df, imerg_df, landsat_df, base, joined, merged, csv>>
    /\ UNCHANGED <<first_csv, align, fuse, train, fetch, disease>>

\* python download_imerg.py
DownloadImerg ==
    /\ pc = "imerg"
    /\ \E env \in Envs, reply \in Replies :
          LET r == ImergRun(disk, env, reply)
          IN  disk' = r.disk /\ proc' = r.proc
    /\ pc' = "download"
    /\ UNCHANGED <<smap_df, modis_df, imerg_df, landsat_df, base, joined, merged, csv>>
    /\ UNCHANGED <<first_csv, align, fuse, train, fetch, disease>>

\* ------------------------------------------------- preprocess_data.py
\* load_smap_data without the os.path.exists test
load_smap_data_unconditional(d, soil) ==
    DF(<<"date", "soil_moisture", "source">>,
       [i \in 1..NumDays |->
           [date |-> DailyDates[i], soil_moisture |-> soil[i], source |-> Simulated]])

\* lines 19-44: load_smap_data; soil is the draw of np.random.random
load_smap_data(d, soil) ==
    IF d.smap
    THEN DF(<<"date", "soil_moisture", "source">>,
            [i \in 1..NumDays |->
                [date |-> DailyDates[i], soil_moisture |-> soil[i], source |-> Simulated]])
    ELSE EmptyDF

\* lines 46-71: load_modis_data
load_modis_data(d, ndvi) ==
    IF d.modis
    THEN DF(<<"date", "ndvi", "source">>,
            [i \in 1..CadenceCount |->
                [date |-> CadenceDates[i], ndvi |-> ndvi[i], source |-> Simulated]])
    ELSE EmptyDF

\* lines 73-98: load_imerg_data
load_imerg_data(d, precipitation) ==
    IF d.imerg
    THEN DF(<<"date", "precipitation", "source">>,
            [i \in 1..NumDays |->
                [date |-> DailyDates[i], precipitation |-> precipitation[i],
                 source |-> Simulated]])
    ELSE EmptyDF

\* lines 100-140: load_landsat_data; the observed series keeps the field
\* names of landsat_ndvi.json (date, ndvi, cloud_cover)
load_landsat_data(d, landsat_ndvi, cloud) ==
    IF d.landsat_ndvi.exists /\ Len(d.landsat_ndvi.data) > 0
    THEN DF(<<"date", "ndvi", "cloud_cover">>, d.landsat_ndvi.data)
    ELSE IF d.landsat_meta.exists
    THEN DF(<<"date", "landsat_ndvi", "cloud_cover", "source">>,
            [i \in 1..CadenceCount |->
                [date |-> CadenceDates[i], landsat_ndvi |-> landsat_ndvi[i],
                 cloud_cover |-> cloud[i], source |-> Simulated]])
    ELSE EmptyDF

\* One row of left.merge(right[cols], on='date', how='left'): the left row
\* once per right row of the same date, in the right table's order, or once
\* with the new columns missing when no right row has its date.
MergeRow(lrow, rrows, newcols) ==
    LET matches == SelectSeq(rrows, LAMBDA r : r["date"] = lrow["date"])
        both(r) == [c \in DOMAIN lrow \cup newcols |->
                       IF c \in DOMAIN lrow THEN lrow[c] ELSE r[c]]
        alone == [c \in DOMAIN lrow \cup newcols |->
                       IF c \in DOMAIN lrow THEN lrow[c] ELSE NaN]
    IN  IF matches = <<>> THEN <<alone>>
        ELSE [k \in 1..Len(matches) |-> both(matches[k])]

RECURSIVE MergeRows(_, _, _)
MergeRows(lrows, rrows, newcols) ==
    IF lrows = <<>> THEN <<>>
    ELSE MergeRow(Head(lrows), rrows, newcols) \o MergeRows(Tail(lrows), rrows, newcols)

\* left.merge(right[<<"date">> \o cols], on='date', how='left')
LeftMerge(left, right, cols) ==
    DF(left.cols \o cols, MergeRows(left.rows, right.rows, Range(cols)))

\* Series.ffill over column c: a missing cell takes the last cell above it
\* that is not missing, and stays missing when there is none.
RECURSIVE FfillRows(_, _, _)
FfillRows(rows, c, last) ==
    IF rows = <<>> THEN <<>>
    ELSE LET v == IF IsNa(Head(rows)[c]) THEN last ELSE Head(rows)[c]
         IN  <<[Head(rows) EXCEPT ![c] = v]>> \o FfillRows(Tail(rows), c, v)

\* the forward fill left out
FfillOmitted(df, c) == df

\* ffill(limit=1): a value is carried over one row only
RECURSIVE FfillOnceRows(_, _, _)
FfillOnceRows(rows, c, last) ==
    IF rows = <<>> THEN <<>>
    ELSE LET v == IF IsNa(Head(rows)[c]) THEN last ELSE Head(rows)[c]
         IN  <<[Head(rows) EXCEPT ![c] = v]>>
                 \o FfillOnceRows(Tail(rows), c, IF IsNa(Head(rows)[c]) THEN NaN ELSE v)

FfillOnce(df, c) == DF(df.cols, FfillOnceRows(df.rows, c, NaN))

Ffill(df, c) == DF(df.cols, FfillRows(df.rows, c, NaN))

RECURSIVE SumSeq(_)
SumSeq(s) == IF s = <<>> THEN 0 ELSE Head(s) + SumSeq(Tail(s))

\* rolling(8): the window one row too long
WindowValuesWide(rows, c, i) ==
    LET lo == IF i > Window + 1 THEN i - Window ELSE 1
    IN  SelectSeq([k \in 1..(i - lo + 1) |-> rows[lo + k - 1][c]],
                  LAMBDA v : ~IsNa(v))

\* The cells of column c that rolling(Window) sees at row i: rows
\* i-Window+1 .. i, cut at the first row, the missing ones left out.
WindowValues(rows, c, i) ==
    LET lo == IF i > Window THEN i - Window + 1 ELSE 1
    IN  SelectSeq([k \in 1..(i - lo + 1) |-> rows[lo + k - 1][c]],
                  LAMBDA v : ~IsNa(v))

\* rolling(7, min_periods=1).sum() at row i
RollingSum(rows, c, i) ==
    LET valid == WindowValues(rows, c, i)
    IN  IF Len(valid) < MinPeriods THEN NaN ELSE SumSeq(valid)

\* rolling(7, min_periods=1).mean() at row i
RollingMean(rows, c, i) ==
    LET valid == WindowValues(rows, c, i)
    IN  IF Len(valid) < MinPeriods THEN NaN ELSE SumSeq(valid) \div Len(valid)

\* mean(axis=1, skipna=False): missing as soon as one of the two is
RowMeanAll(row) ==
    IF IsNa(row["landsat_ndvi"]) \/ IsNa(row["ndvi"]) THEN NaN
    ELSE (row["landsat_ndvi"] + row["ndvi"]) \div 2

\* mean(axis=1, skipna=True) over the two vegetation-index cells of a row
RowMean(row) ==
    LET valid == SelectSeq(<<row["landsat_ndvi"], row["ndvi"]>>, LAMBDA v : ~IsNa(v))
    IN  IF valid = <<>> THEN NaN ELSE SumSeq(valid) \div Len(valid)

\* df[c] = cells: a new column at the end
WithCol(df, c, cells) ==
    DF(Append(df.cols, c),
       [i \in 1..Len(df.rows) |->
           [x \in DOMAIN df.rows[i] \cup {c} |->
               IF x = c THEN cells[i] ELSE df.rows[i][x]]])

\* df[new] = df.pop(old)
Renamed(df, old, new) ==
    DF(Append(SelectSeq(df.cols, LAMBDA x : x # old), new),
       [i \in 1..Len(df.rows) |->
           [x \in (DOMAIN df.rows[i] \ {old}) \cup {new} |->
               IF x = new THEN df.rows[i][old] ELSE df.rows[i][x]]])

\* lines 155-163: the SMAP series, or the daily calendar of the date range
BaseTable(smap) ==
    IF ~IsEmpty(smap) THEN smap
    ELSE DF(<<"date">>, [i \in 1..NumDays |-> [date |-> DailyDates[i]]])

\* lines 165-170
JoinModis(m, modis) ==
    IF ~IsEmpty(modis)
    THEN Ffill(LeftMerge(m, modis, <<"ndvi">>), "ndvi")
    ELSE m

\* lines 172-185
JoinLandsat(m, landsat) ==
    IF ~IsEmpty(landsat)
    THEN LET columns == (IF HasCol(landsat, "landsat_ndvi") THEN <<"landsat_ndvi">> ELSE <<>>)
                        \o (IF HasCol(landsat, "cloud_cover") THEN <<"cloud_cover">> ELSE <<>>)
             m1 == LeftMerge(m, landsat, columns)
             m2 == IF HasCol(m1, "landsat_ndvi") THEN Ffill(m1, "landsat_ndvi") ELSE m1
         IN  IF HasCol(m2, "cloud_cover")
             THEN Renamed(m2, "cloud_cover", "landsat_cloud_cover")
             ELSE m2
    ELSE m

\* lines 187-191
JoinImerg(m, imerg) ==
    IF ~IsEmpty(imerg) THEN LeftMerge(m, imerg, <<"precipitation">>) ELSE m

\* lines 193-208
DerivedFeatures(m) ==
    LET n == Len(m.rows)
        m1 == WithCol(m, "day_of_year", [i \in 1..n |-> DayOfYear(m.rows[i]["date"])])
        m2 == WithCol(m1, "month", [i \in 1..n |-> Month(m.rows[i]["date"])])
        m3 == IF HasCol(m2, "soil_moisture")
              THEN WithCol(m2, "soil_moisture_7d_avg",
                           [i \in 1..n |-> RollingMean(m.rows, "soil_moisture", i)])
              ELSE m2
        m4 == IF HasCol(m3, "precipitation")
              THEN WithCol(m3, "precip_7d_sum",
                           [i \in 1..n |-> RollingSum(m.rows, "precipitation", i)])
              ELSE m3
    IN  IF HasCol(m4, "landsat_ndvi") /\ HasCol(m4, "ndvi")
        THEN WithCol(m4, "combined_ndvi", [i \in 1..n |-> RowMean(m.rows[i])])
        ELSE IF HasCol(m4, "landsat_ndvi")
        THEN WithCol(m4, "combined_ndvi", [i \in 1..n |-> m.rows[i]["landsat_ndvi"]])
        ELSE IF HasCol(m4, "ndvi")
        THEN WithCol(m4, "combined_ndvi", [i \in 1..n |-> m.rows[i]["ndvi"]])
        ELSE m4

\* count of the cells of a row that are not missing
NonNull(row) == Cardinality({c \in DOMAIN row : ~IsNa(row[c])})

\* dropna(thresh=len(columns) - 1)
KeepsRowOneMissing(row, ncols) == NonNull(row) >= ncols - 1

\* dropna(thresh=3): a threshold that does not follow the column count
KeepsRowFixed(row, ncols) == NonNull(row) >= 3

\* line 210: dropna(thresh=len(columns) - 2) keeps the rows with at least
\* thresh cells that are not missing
KeepsRow(row, ncols) == NonNull(row) >= ncols - MaxMissing

CompletenessFilter(m) ==
    DF(m.cols, SelectSeq(m.rows, LAMBDA row : KeepsRow(row, Len(m.cols))))

\* lines 155-208: the table merge_datasets holds before line 210
JoinedTable(smap, modis, imerg, landsat) ==
    DerivedFeatures(
        JoinImerg(JoinLandsat(JoinModis(BaseTable(smap), modis), landsat), imerg))

\* lines 151-153: nothing to merge
NothingLoaded(smap, modis, imerg, landsat) ==
    IsEmpty(smap) /\ IsEmpty(modis) /\ IsEmpty(imerg) /\ IsEmpty(landsat)

\* np.random.random(n) scaled into a range: n values of Vals, drawn only by
\* a reader that synthesizes
Draws(used, n, Vals) ==
    IF used THEN [1..n -> Vals] ELSE {[i \in 1..n |-> NaN]}

\* lines 106-119: load_landsat_data reaches its synthetic series
SimulatesLandsat(d) ==
    ~(d.landsat_ndvi.exists /\ Len(d.landsat_ndvi.data) > 0) /\ d.landsat_meta.exists

\* lines 248-262 with 142-220: one run of the preprocessing script
Preprocess ==
    /\ pc \in {"download", "preprocess"}
    /\ \E soil \in Draws(disk.smap, NumDays, SoilVals),
          ndvi \in Draws(disk.modis, CadenceCount, NdviVals),
          precipitation \in Draws(disk.imerg, NumDays, PrecipVals),
          landsat_ndvi \in Draws(SimulatesLandsat(disk), CadenceCount, NdviVals),
          cloud \in Draws(SimulatesLandsat(disk), CadenceCount, SimCloudVals) :
          /\ smap_df' = load_smap_data(disk, soil)
          /\ modis_df' = load_modis_data(disk, ndvi)
          /\ imerg_df' = load_imerg_data(disk, precipitation)
          /\ landsat_df' = load_landsat_data(disk, landsat_ndvi, cloud)
          /\ base' = IF NothingLoaded(smap_df', modis_df', imerg_df', landsat_df') THEN None
                     ELSE BaseTable(smap_df')
          /\ joined' = IF base' = None THEN None
                       ELSE JoinedTable(smap_df', modis_df', imerg_df', landsat_df')
          /\ merged' = IF base' = None THEN None ELSE CompletenessFilter(joined')
          /\ csv' = IF merged' # None /\ ~IsEmpty(merged') THEN merged' ELSE csv
          /\ proc' = Returned("preprocess_data", NoEnv, <<>>, NoReply,
                               IF merged' # None /\ ~IsEmpty(merged')
                               THEN {"data/processed", "merged_features.csv",
                                     "data_summary.json"}
                               ELSE {})
    /\ pc' = "done"
    /\ UNCHANGED <<disk, first_csv, align, fuse, train, fetch, disease>>

\* the preprocessing script is started once more over the same artifacts,
\* the table the first run saved being kept aside
RunAgain ==
    /\ pc = "done"
    /\ csv # None
    /\ first_csv = None
    /\ first_csv' = csv
    /\ pc' = "preprocess"
    /\ UNCHANGED <<disk, smap_df, modis_df, imerg_df, landsat_df, base, joined, merged, csv>>
    /\ UNCHANGED <<proc, align, fuse, train, fetch, disease>>

\* before any script has run: no artifact.  smap, modis and imerg tell
\* whether smap_metadata.json, modis_metadata.json and imerg_metadata.json
\* exist, modis_status and imerg_status the 'status' they hold ("none"
\* without the file or the key).
EmptyDisk ==
    [smap |-> FALSE, modis |-> FALSE, modis_status |-> "none",
     imerg |-> FALSE, imerg_status |-> "none",
     landsat_meta |-> NoFile, landsat_ndvi |-> [exists |-> FALSE, data |-> <<>>]]

RunStart(d) ==
    /\ pc = "smap"
    /\ disk = d
    /\ smap_df = EmptyDF
    /\ modis_df = EmptyDF
    /\ imerg_df = EmptyDF
    /\ landsat_df = EmptyDF
    /\ base = None
    /\ joined = None
    /\ merged = None
    /\ csv = None
    /\ first_csv = None
    /\ proc = NoProcess

AlignIdle == [pc |-> "idle", base |-> EmptyDF, src |-> EmptyDF, out |-> None, again |-> None]

FuseIdle == [pc |-> "idle", tbl |-> EmptyDF, derived |-> None, kept |-> None]

TrainIdle ==
    [pc |-> "idle", tbl |-> EmptyDF, kept |-> None, df |-> None, X |-> None,
     y |-> <<>>, feature_cols |-> <<>>, raised |-> "none"]

FetchIdle ==
    [pc |-> "idle", disk |-> EmptyDisk, proc |-> NoProcess, answer |-> NoAnswer,
     runs |-> 0, landsat_df |-> None]

DiseaseIdle ==
    [pc |-> "idle", tried |-> <<>>, raised |-> {}, dataset_path |-> "", exists |-> FALSE,
     obtained |-> "none", status |-> ExitOk, wrote |-> {}, generators |-> FALSE,
     class_labels |-> <<>>, treatments |-> <<>>]

RunIdle == RunStart(EmptyDisk)

OthersIdle == train = TrainIdle /\ fetch = FetchIdle /\ disease = DiseaseIdle

Init == RunIdle /\ align = AlignIdle /\ fuse = FuseIdle /\ OthersIdle

Next ==
    \/ DownloadSmap
    \/ DownloadModis
    \/ DownloadAppeearsResult
    \/ DownloadImerg
    \/ SearchLandsat
    \/ SearchLandsatNoToken
    \/ Preprocess
    \/ RunAgain

Spec == Init /\ [][Next]_vars

\* ------------------------------------------- the temporal alignment alone
\* merge_datasets lines 165-170 as a function of the base table and of the
\* source series: any calendar of days 1..AlignDays, any series with one
\* observation per date over days 0..AlignDays.
RECURSIVE SortedSeq(_)
SortedSeq(S) ==
    IF S = {} THEN <<>>
    ELSE LET m == CHOOSE x \in S : \A y \in S : x <= y
         IN  <<m>> \o SortedSeq(S \ {m})

AlignCalendars ==
    {DF(<<"date">>, [i \in 1..Cardinality(S) |-> [date |-> SortedSeq(S)[i]]]) :
        S \in (SUBSET (1..AlignDays)) \ {{}}}

AlignSeries ==
    UNION {{DF(<<"date", "ndvi">>,
               [i \in 1..Cardinality(S) |->
                   [date |-> SortedSeq(S)[i], ndvi |-> f[SortedSeq(S)[i]]]]) :
               f \in [S -> NdviVals]} :
           S \in (SUBSET (0..AlignDays)) \ {{}}}

AlignInit ==
    /\ RunIdle
    /\ fuse = FuseIdle
    /\ OthersIdle
    /\ align \in [pc : {"input"}, base : AlignCalendars, src : AlignSeries,
                  out : {None}, again : {None}]

\* the series aligned on the calendar
AlignSource ==
    /\ align.pc = "input"
    /\ align' = [align EXCEPT !.pc = "aligned", !.out = JoinModis(align.base, align.src)]
    /\ UNCHANGED <<runVars, fuse, train, fetch, disease>>

\* the aligned daily series aligned again on the same calendar
AlignAgain ==
    /\ align.pc = "aligned"
    /\ align' = [align EXCEPT
           !.pc = "again",
           !.again = JoinModis(align.base,
                               DF(<<"date", "ndvi">>,
                                  [i \in 1..Len(align.out.rows) |->
                                      [date |-> align.out.rows[i]["date"],
                                       ndvi |-> align.out.rows[i]["ndvi"]]]))]
    /\ UNCHANGED <<runVars, fuse, train, fetch, disease>>

AlignNext == AlignSource \/ AlignAgain

AlignSpec == AlignInit /\ [][AlignNext]_vars

\* ------------------------------------------------------------ claims
Dates(df) == [i \in 1..Len(df.rows) |-> df.rows[i]["date"]]

Column(df, c) == [i \in 1..Len(df.rows) |-> df.rows[i][c]]

\* the cell of column c of the latest row of src dated on or before d
MostRecent(src, c, d) ==
    LET earlier == {k \in 1..Len(src.rows) : src.rows[k]["date"] <= d}
    IN  IF earlier = {} THEN NaN
        ELSE LET k == CHOOSE k \in earlier :
                          \A j \in earlier : src.rows[j]["date"] <= src.rows[k]["date"]
             IN  src.rows[k][c]

AlignedTo(tbl, src, c) ==
    \A i \in 1..Len(tbl.rows) : tbl.rows[i][c] = MostRecent(src, c, tbl.rows[i]["date"])

Calendar(n) == DF(<<"date">>, [i \in 1..n |-> [date |-> i]])

\* C1: after a preprocessing run every base-calendar date has a row, and in
\* every row the forward-filled columns ndvi (from MODIS) and landsat_ndvi
\* hold the value of the most recent source observation dated on or before
\* the row's date, and are missing when there is none; one observation 500
\* at day 1 over the calendar day 1..4 gives <<500, 500, 500, 500>>, and one
\* at day 3 leaves days 1 and 2 missing.
C1_TemporalAlignment ==
    /\ (pc = "done" /\ joined # None) =>
          /\ \A d \in Range(DailyDates) : d \in Range(Dates(joined))
          /\ ~IsEmpty(modis_df) =>
                /\ HasCol(joined, "ndvi")
                /\ AlignedTo(joined, modis_df, "ndvi")
                /\ AlignedTo(merged, modis_df, "ndvi")
          /\ HasCol(landsat_df, "landsat_ndvi") =>
                /\ HasCol(joined, "landsat_ndvi")
                /\ AlignedTo(joined, landsat_df, "landsat_ndvi")
                /\ AlignedTo(merged, landsat_df, "landsat_ndvi")
    /\ Column(JoinModis(Calendar(4),
                        DF(<<"date", "ndvi">>, <<[date |-> 1, ndvi |-> 500]>>)), "ndvi")
          = <<500, 500, 500, 500>>
    /\ Column(JoinModis(Calendar(4),
                        DF(<<"date", "ndvi">>, <<[date |-> 3, ndvi |-> 500]>>)), "ndvi")
          = <<NaN, NaN, 500, 500>>

\* C1 witness: a run in which a date without observation took the value of
\* the observation before it, while a later observation had another value.
C1_Witness ==
    /\ pc = "done"
    /\ ~IsEmpty(modis_df)
    /\ HasCol(landsat_df, "landsat_ndvi")
    /\ \E i, j \in 1..Len(merged.rows) :
          /\ merged.rows[i]["date"] \notin Range(Dates(modis_df))
          /\ merged.rows[i]["ndvi"] = 500
          /\ merged.rows[i]["landsat_ndvi"] = 600
          /\ merged.rows[j]["date"] > merged.rows[i]["date"]
          /\ merged.rows[j]["ndvi"] = 600
          /\ merged.rows[j]["landsat_ndvi"] = 500

\* C3: the table before the completeness filter has exactly the base rows,
\* one per base-calendar date, in the base order, each with its base cells;
\* the base is the SMAP series when present, else the daily calendar.
C3_JoinTotal ==
    (pc = "done" /\ joined # None) =>
        /\ base = (IF ~IsEmpty(smap_df) THEN smap_df ELSE Calendar(NumDays))
        /\ Dates(base) = DailyDates
        /\ Len(joined.rows) = Len(base.rows)
        /\ \A i \in 1..Len(base.rows) :
              \A c \in Range(base.cols) : joined.rows[i][c] = base.rows[i][c]

\* C4: the date column of the returned table is strictly increasing (so
\* unique) from row to row.
C4_DatesIncreasing ==
    (pc = "done" /\ merged # None) =>
        \A i \in 1..Len(merged.rows) - 1 :
            merged.rows[i]["date"] < merged.rows[i + 1]["date"]

\* --------------------------- the derived features and the filter alone
\* merge_datasets lines 193-210 as a function of the joined table: short
\* tables with any subset of the primary columns, each cell set or missing,
\* and long tables with one rolled column and at most one missing day.
FuseDates == <<1, 2>>

FuseValue(c) ==
    CASE c = "soil_moisture" -> 420
      [] c = "source" -> Simulated
      [] c = "ndvi" -> 500
      [] c = "landsat_ndvi" -> 600
      [] c = "landsat_cloud_cover" -> 10
      [] c = "precipitation" -> 5

\* the columns in the order the joins add them; source comes with the SMAP base
FusePrimary ==
    <<"soil_moisture", "source", "ndvi", "landsat_ndvi", "landsat_cloud_cover",
      "precipitation">>

FuseColumnSets ==
    {P \in SUBSET Range(FusePrimary) : ("source" \in P) <=> ("soil_moisture" \in P)}

\* set[i][c]: whether the cell of column c is set in row i
ShortTables ==
    UNION {{DF(<<"date">> \o SelectSeq(FusePrimary, LAMBDA c : c \in P),
               [i \in 1..Len(FuseDates) |->
                   [c \in P \cup {"date"} |->
                       IF c = "date" THEN FuseDates[i]
                       ELSE IF c = "source" \/ set[i][c] THEN FuseValue(c)
                       ELSE NaN]]) :
               set \in [1..Len(FuseDates) -> [P \ {"source"} -> BOOLEAN]]} :
           P \in FuseColumnSets}

LongTables ==
    {DF(<<"date", "precipitation">>,
        [i \in 1..RollLen |->
            [date |-> i, precipitation |-> IF i = gap THEN NaN ELSE f[i]]]) :
        f \in [1..RollLen -> {5, 10}], gap \in 0..RollLen}
    \cup
    {DF(<<"date", "soil_moisture">>,
        [i \in 1..RollLen |->
            [date |-> i, soil_moisture |-> IF i = gap THEN NaN ELSE f[i]]]) :
        f \in [1..RollLen -> {420, 840}], gap \in 0..RollLen}

FuseInit ==
    /\ RunIdle
    /\ align = AlignIdle
    /\ OthersIdle
    /\ fuse \in [pc : {"input"}, tbl : ShortTables \cup LongTables,
                 derived : {None}, kept : {None}]

\* lines 193-208 applied
FuseDerive ==
    /\ fuse.pc = "input"
    /\ fuse' = [fuse EXCEPT !.pc = "derived", !.derived = DerivedFeatures(fuse.tbl)]
    /\ UNCHANGED <<runVars, align, train, fetch, disease>>

\* line 210 applied
FuseFilter ==
    /\ fuse.pc = "derived"
    /\ fuse' = [fuse EXCEPT !.pc = "filtered", !.kept = CompletenessFilter(fuse.derived)]
    /\ UNCHANGED <<runVars, align, train, fetch, disease>>

FuseNext == FuseDerive \/ FuseFilter

FuseSpec == FuseInit /\ [][FuseNext]_vars

C10_AlignIdempotent ==
    align.pc = "again" =>
        /\ Dates(align.again) = Dates(align.out)
        /\ Column(align.again, "ndvi") = Column(align.out, "ndvi")

\* C10 witness: a series that was carried over one date and starts after
\* the calendar does, aligned twice.
C10_Witness ==
    /\ align.pc = "again"
    /\ Column(align.out, "ndvi") = <<NaN, 500, 500>>
    /\ Len(align.src.rows) = 1

\* the vegetation-index cells of a row that are set
PresentNdvi(row) ==
    {c \in {"ndvi", "landsat_ndvi"} \cap DOMAIN row : ~IsNa(row[c])}

CombinedIsMean(row) ==
    LET present == PresentNdvi(row)
    IN  IF present = {} THEN IsNa(row["combined_ndvi"])
        ELSE /\ ~IsNa(row["combined_ndvi"])
             /\ (\A c \in present : row[c] = row["combined_ndvi"])
                   \/ (/\ present = {"ndvi", "landsat_ndvi"}
                       /\ 2 * row["combined_ndvi"] = row["ndvi"] + row["landsat_ndvi"])

\* C5: a fused table has the column combined_ndvi exactly when it has ndvi or
\* landsat_ndvi, and in every row, before and after the filter, combined_ndvi
\* is the mean of those of the two cells that are set: the one set cell, the
\* mean of both (500 and 600 give 550), missing when neither is set.
C5_CombinedIsMeanOfPresent ==
    fuse.pc \in {"derived", "filtered"} =>
        /\ HasCol(fuse.derived, "combined_ndvi")
              <=> (HasCol(fuse.tbl, "ndvi") \/ HasCol(fuse.tbl, "landsat_ndvi"))
        /\ HasCol(fuse.derived, "combined_ndvi") =>
              /\ \A i \in 1..Len(fuse.derived.rows) : CombinedIsMean(fuse.derived.rows[i])
              /\ \A i \in 1..Len(fuse.kept.rows) : CombinedIsMean(fuse.kept.rows[i])

\* C5 witness: a fused table with 500 and 600 in one row, combined to 550,
\* and only 600 in the other, combined to 600.
C5_Witness ==
    /\ fuse.pc = "filtered"
    /\ Len(fuse.kept.rows) = 2
    /\ HasCol(fuse.kept, "ndvi") /\ HasCol(fuse.kept, "landsat_ndvi")
    /\ fuse.kept.rows[1]["ndvi"] = 500
    /\ fuse.kept.rows[1]["landsat_ndvi"] = 600
    /\ fuse.kept.rows[1]["combined_ndvi"] = 550
    /\ IsNa(fuse.kept.rows[2]["ndvi"])
    /\ fuse.kept.rows[2]["landsat_ndvi"] = 600
    /\ fuse.kept.rows[2]["combined_ndvi"] = 600

\* the rows max(1, i-6) .. i whose cell of column c is set
WindowRows(tbl, c, i) ==
    {k \in 1..i : k >= i - 6 /\ ~IsNa(tbl.rows[k][c])}

RECURSIVE SumOver(_, _, _)
SumOver(tbl, c, K) ==
    IF K = {} THEN 0
    ELSE LET k == CHOOSE k \in K : TRUE
         IN  tbl.rows[k][c] + SumOver(tbl, c, K \ {k})

\* C6: deriving the features drops no row; precip_7d_sum of row i is the sum
\* and soil_moisture_7d_avg the mean of the set cells of rows max(1, i-6)..i,
\* missing only when none of them is set; precipitation <<10, 0, 0, 5>>
\* gives the sums <<10, 10, 10, 15>>.
C6_RollingWindow ==
    /\ fuse.pc \in {"derived", "filtered"} =>
          /\ Dates(fuse.derived) = Dates(fuse.tbl)
          /\ HasCol(fuse.derived, "precip_7d_sum") <=> HasCol(fuse.tbl, "precipitation")
          /\ HasCol(fuse.derived, "soil_moisture_7d_avg") <=> HasCol(fuse.tbl, "soil_moisture")
          /\ HasCol(fuse.tbl, "precipitation") =>
                \A i \in 1..Len(fuse.tbl.rows) :
                    LET K == WindowRows(fuse.tbl, "precipitation", i)
                        v == fuse.derived.rows[i]["precip_7d_sum"]
                    IN  IF K = {} THEN IsNa(v)
                        ELSE v = SumOver(fuse.tbl, "precipitation", K)
          /\ HasCol(fuse.tbl, "soil_moisture") =>
                \A i \in 1..Len(fuse.tbl.rows) :
                    LET K == WindowRows(fuse.tbl, "soil_moisture", i)
                        v == fuse.derived.rows[i]["soil_moisture_7d_avg"]
                    IN  IF K = {} THEN IsNa(v)
                        ELSE v * Cardinality(K) = SumOver(fuse.tbl, "soil_moisture", K)
    /\ Column(DerivedFeatures(
                  DF(<<"date", "precipitation">>,
                     <<[date |-> 1, precipitation |-> 10], [date |-> 2, precipitation |-> 0],
                       [date |-> 3, precipitation |-> 0], [date |-> 4, precipitation |-> 5]>>)),
              "precip_7d_sum") = <<10, 10, 10, 15>>

\* C6 witness: a table of more than 7 rows whose first row has left the
\* window of the last one.
C6_Witness ==
    /\ fuse.pc = "derived"
    /\ Len(fuse.tbl.rows) > 7
    /\ HasCol(fuse.tbl, "precipitation")
    /\ Column(fuse.tbl, "precipitation") = [i \in 1..Len(fuse.tbl.rows) |-> IF i = 1 THEN 10 ELSE 5]
    /\ fuse.derived.rows[7]["precip_7d_sum"] = 40
    /\ fuse.derived.rows[8]["precip_7d_sum"] = 35

\* whether column c is absent from table t, or its cell missing in the row
AbsentIn(t, row, c) == ~HasCol(t, c) \/ IsNa(row[c])

DerivedFollowInputs(t) ==
    \A i \in 1..Len(t.rows) :
        LET row == t.rows[i]
        IN  /\ AbsentIn(t, row, "soil_moisture") => AbsentIn(t, row, "soil_moisture_7d_avg")
            /\ AbsentIn(t, row, "precipitation") => AbsentIn(t, row, "precip_7d_sum")
            /\ (AbsentIn(t, row, "ndvi") /\ AbsentIn(t, row, "landsat_ndvi"))
                  => AbsentIn(t, row, "combined_ndvi")

Missing(row) == Cardinality({c \in DOMAIN row : IsNa(row[c])})

\* C8: the filter keeps the columns, and keeps exactly the rows with at most
\* 2 missing cells, unchanged and in their order.
C8_FilterKeepsAtMostTwoMissing ==
    fuse.pc = "filtered" =>
        /\ fuse.kept.cols = fuse.derived.cols
        /\ fuse.kept.rows = SelectSeq(fuse.derived.rows, LAMBDA row : Missing(row) <= 2)
        /\ \A i \in 1..Len(fuse.derived.rows) :
              DOMAIN fuse.derived.rows[i] = Range(fuse.derived.cols)

\* C8 witness: a fused table whose first row has 3 missing cells and is
\* removed, and whose second row has 2 and is kept.
C8_Witness ==
    /\ fuse.pc = "filtered"
    /\ Len(fuse.derived.rows) = 2
    /\ Missing(fuse.derived.rows[1]) = 3
    /\ Missing(fuse.derived.rows[2]) = 2
    /\ fuse.kept.rows = <<fuse.derived.rows[2]>>

Restrict(row, C) == [c \in C |-> row[c]]

Dropped(row, C) == ~KeepsRow(Restrict(row, C), Cardinality(C))

\* C9: a row that the filter drops when the table has the columns C is
\* dropped as well when the table has more columns, whatever their cells: for
\* every row of a fused table, every set C of input columns, every larger
\* set of input columns and that set with the derived columns added.
C9_FilterMonotone ==
    fuse.pc \in {"derived", "filtered"} /\ Len(fuse.tbl.rows) = Len(FuseDates) =>
        \A i \in 1..Len(fuse.derived.rows) :
            LET row == fuse.derived.rows[i]
                inputs == Range(fuse.tbl.cols)
            IN  \A C \in SUBSET inputs :
                    Dropped(row, C) =>
                        \A D \in SUBSET inputs :
                            C \subseteq D =>
                                /\ Dropped(row, D)
                                /\ Dropped(row, D \cup (DOMAIN row \ inputs))

\* C9 witness: a row dropped with three columns, all missing, and still
\* dropped with its date and the derived columns added.
C9_Witness ==
    /\ fuse.pc = "filtered"
    /\ \E i \in 1..Len(fuse.derived.rows) :
          LET row == fuse.derived.rows[i]
          IN  /\ {"soil_moisture", "ndvi", "landsat_ndvi"} \subseteq DOMAIN row
              /\ Dropped(row, {"soil_moisture", "ndvi", "landsat_ndvi"})
              /\ ~Dropped(row, {"soil_moisture", "ndvi"})
              /\ Dropped(row, DOMAIN row)

\* ------------------------------------------- claims on readers and scripts
\* the preprocessing script has run to its end and no exception left it
PreprocessReturned ==
    /\ pc = "done"
    /\ proc.script = "preprocess_data"
    /\ proc.end = "exit" /\ proc.status = ExitOk /\ ~proc.uncaught

\* no Landsat artifact on disk d
NoLandsatArtifact(d) == ~d.landsat_meta.exists /\ ~d.landsat_ndvi.exists

\* C11: after a preprocessing run, which always runs to its end, the batch
\* of every reader whose source has no artifact on disk is empty.
C11_AbsentArtifactEmpty ==
    /\ pc = "done" => PreprocessReturned
    /\ pc = "done" =>
          /\ ~disk.smap => IsEmpty(smap_df)
          /\ ~disk.modis => IsEmpty(modis_df)
          /\ ~disk.imerg => IsEmpty(imerg_df)
          /\ NoLandsatArtifact(disk) => IsEmpty(landsat_df)

\* C11 witness: a run that found the MODIS artifact and none of SMAP, IMERG
\* and Landsat.
C11_Witness ==
    /\ PreprocessReturned
    /\ ~disk.smap /\ ~disk.imerg /\ NoLandsatArtifact(disk) /\ disk.modis
    /\ IsEmpty(smap_df) /\ IsEmpty(imerg_df) /\ IsEmpty(landsat_df)
    /\ ~IsEmpty(modis_df)

\* C12: after a preprocessing run, which runs to its end, the batch of every
\* reader whose artifact records a failed fetch (status no_data or failed) is
\* empty.
C12_FailedFetchEmpty ==
    pc = "done" =>
        /\ PreprocessReturned
        /\ (disk.modis /\ disk.modis_status \in {"no_data", "failed"}) => IsEmpty(modis_df)
        /\ (disk.imerg /\ disk.imerg_status \in {"no_data", "failed"}) => IsEmpty(imerg_df)
        /\ (/\ disk.landsat_meta.exists
            /\ disk.landsat_meta.status \in {"no_data", "failed"}
            /\ ~disk.landsat_ndvi.exists) => IsEmpty(landsat_df)

\* the columns of the fused table that come from a source alone
ColumnsOf(source) ==
    CASE source = "smap" -> {"soil_moisture", "source", "soil_moisture_7d_avg"}
      [] source = "modis" -> {"ndvi"}
      [] source = "imerg" -> {"precipitation", "precip_7d_sum"}
      [] source = "landsat" -> {"landsat_ndvi", "landsat_cloud_cover"}

ArtifactAbsent(d, source) ==
    CASE source = "smap" -> ~d.smap
      [] source = "modis" -> ~d.modis
      [] source = "imerg" -> ~d.imerg
      [] source = "landsat" -> NoLandsatArtifact(d)

Sources == {"smap", "modis", "imerg", "landsat"}

\* C13: a preprocessing run over a disk where the artifacts of some sources
\* are absent runs to its end and returns a fused table that has the date
\* column and no column of an absent source (nor combined_ndvi when both
\* vegetation-index sources are absent), whichever sources are absent.
C13_AbsentSourceNoColumns ==
    (pc = "done" /\ \E src \in Sources : ArtifactAbsent(disk, src)) =>
        /\ PreprocessReturned
        /\ merged # None
        /\ HasCol(merged, "date")
        /\ \A src \in Sources :
              ArtifactAbsent(disk, src) => Range(merged.cols) \cap ColumnsOf(src) = {}
        /\ (ArtifactAbsent(disk, "modis") /\ ArtifactAbsent(disk, "landsat"))
              => ~HasCol(merged, "combined_ndvi")

\* whether the values of the batch a reader returned were synthesized
Synthesized(d, source) ==
    IF source = "landsat" THEN SimulatesLandsat(d) ELSE ~ArtifactAbsent(d, source)

\* the provenance flag of a batch is one flag, 'simulated'
FlaggedSimulated(df) ==
    /\ HasCol(df, "source")
    /\ \A i \in 1..Len(df.rows) : df.rows[i]["source"] = Simulated

\* the provenance flag of a batch is one flag other than 'simulated'
FlaggedObserved(df) ==
    /\ HasCol(df, "source")
    /\ \A i \in 1..Len(df.rows) :
          /\ df.rows[i]["source"] # Simulated
          /\ df.rows[i]["source"] = df.rows[1]["source"]

BatchOf(source) ==
    CASE source = "smap" -> smap_df
      [] source = "modis" -> modis_df
      [] source = "imerg" -> imerg_df
      [] source = "landsat" -> landsat_df

\* C14: every non-empty batch a reader returned carries one provenance flag
\* for all its rows: 'simulated' when its values were synthesized, another
\* one (observed) when they were read from the artifact.
C14_SingleProvenanceFlag ==
    pc = "done" =>
        \A src \in Sources :
            ~IsEmpty(BatchOf(src)) =>
                IF Synthesized(disk, src) THEN FlaggedSimulated(BatchOf(src))
                ELSE FlaggedObserved(BatchOf(src))

\* the artifacts on disk d are results of the remote, none a placeholder:
\* the AppEEARS result (status success), the IMERG granule list, the observed
\* Landsat series.  smap_metadata.json is written for an empty answer only.
RealArtifacts(d) ==
    /\ ~d.smap
    /\ d.modis => d.modis_status = "success"
    /\ d.imerg => d.imerg_status = "none"
    /\ d.landsat_meta.exists =>
          (d.landsat_meta.status = "none" /\ d.landsat_ndvi.exists
              /\ Len(d.landsat_ndvi.data) > 0)
    /\ d.modis \/ d.imerg \/ d.landsat_meta.exists

\* C15: a second preprocessing run over the same artifacts, all of them
\* results of the remote, saves the table the first run saved.
C15_RerunIdentical ==
    (pc = "done" /\ first_csv # None /\ RealArtifacts(disk)) => csv = first_csv

\* the dates of a synthetic batch start the fixed date range and stay in it
SpansDateRange(df) ==
    /\ df.rows[1]["date"] = 1
    /\ \A i \in 1..Len(df.rows) : df.rows[i]["date"] \in 1..NumDays
    /\ \A i \in 1..(Len(df.rows) - 1) : df.rows[i]["date"] < df.rows[i + 1]["date"]

\* C16: a reader returns a synthetic series only when its metadata/result
\* file is absent; a synthetic series spans the fixed date range, and a
\* second run over the same disk draws the same synthetic values, so it
\* saves the same table.
C16_SeededSyntheticOnlyWithoutFile ==
    pc = "done" =>
        /\ \A src \in Sources :
              (~IsEmpty(BatchOf(src)) /\ Synthesized(disk, src)) =>
                  /\ ArtifactAbsent(disk, src)
                  /\ SpansDateRange(BatchOf(src))
        /\ first_csv # None => csv = first_csv

DownloadScripts ==
    {"download_smap", "download_modis", "download_appeears_result", "download_imerg",
     "download_landsat"}

NonEmpty(v) == v # Unset /\ v # ""

\* C17: a download script run whose environment holds a non-empty value in
\* neither variable exits with a non-zero status, having issued no request
\* and created no directory or file; otherwise it issues its request with
\* the value of NASA_EARTHDATA_TOKEN when that is non-empty, else with the
\* value of EXPO_PUBLIC_NASA_EARTHDATA_TOKEN.
C17_TokenOrExit ==
    proc.script \in DownloadScripts =>
        LET first == proc.env.NASA_EARTHDATA_TOKEN
            second == proc.env.EXPO_PUBLIC_NASA_EARTHDATA_TOKEN
        IN  IF ~NonEmpty(first) /\ ~NonEmpty(second)
            THEN /\ proc.end = "exit" /\ proc.status # 0
                 /\ proc.requests = <<>>
                 /\ proc.wrote = {}
            ELSE /\ Len(proc.requests) = 1
                 /\ proc.requests[1].bearer = IF NonEmpty(first) THEN first ELSE second

\* C17 witness: download_imerg.py run with NASA_EARTHDATA_TOKEN set to the
\* empty string and the other variable unset: it exits with status 1, no
\* request issued, nothing written.
C17_Witness ==
    /\ proc.script = "download_imerg"
    /\ proc.env.NASA_EARTHDATA_TOKEN = ""
    /\ proc.env.EXPO_PUBLIC_NASA_EARTHDATA_TOKEN = Unset
    /\ proc.end = "exit" /\ proc.status = ExitFailure
    /\ proc.requests = <<>> /\ proc.wrote = {}
    /\ ~disk.imerg

\* the status with which the remote accepts the request of a script
SuccessStatus(script) == IF script = "download_modis" THEN 202 ELSE 200

\* the remote was unavailable to the process: an error status, a network
\* exception or no answer, or (where the answer lists results) none
Unavailable(p) ==
    \/ p.reply.kind \in {"error", "exception", "silence"}
    \/ p.reply.kind = "http" /\ p.reply.status # SuccessStatus(p.script)
    \/ p.reply.kind = "http" /\ p.script # "download_modis" /\ p.reply.results = 0

\* the metadata artifact of the source of a script
ArtifactOf(script) ==
    CASE script = "download_smap" -> "smap_metadata.json"
      [] script = "download_modis" -> "modis_metadata.json"
      [] script = "download_appeears_result" -> "modis_metadata.json"
      [] script = "download_imerg" -> "imerg_metadata.json"
      [] script = "download_landsat" -> "landsat_metadata.json"

\* C18: a download script run with a token to which the remote was
\* unavailable ends normally, no exception uncaught, and has written the
\* fallback artifact of its source.
C18_UnavailabilityRecovered ==
    (proc.script \in DownloadScripts /\ HasToken(proc.env) /\ Unavailable(proc)) =>
        /\ proc.end = "exit" /\ proc.status = ExitOk /\ ~proc.uncaught
        /\ ArtifactOf(proc.script) \in proc.wrote

\* the artifact the reader of the source of a script looks for is on disk d
ReaderFindsArtifact(d, script) ==
    CASE script = "download_smap" -> d.smap
      [] script = "download_modis" -> d.modis
      [] script = "download_appeears_result" -> d.modis
      [] script = "download_imerg" -> d.imerg
      [] script = "download_landsat" -> d.landsat_meta.exists \/ d.landsat_ndvi.exists

\* C19: once a download script run with a token has finished, the artifact
\* the reader of its source looks for is on disk.
C19_ArtifactAlwaysPresent ==
    (proc.script \in DownloadScripts /\ HasToken(proc.env) /\ proc.end = "exit") =>
        ReaderFindsArtifact(disk, proc.script)

\* C20: every request of a download script carries a timeout, every run
\* ends, and a run whose request got no answer has written the fallback
\* artifact of its source.
C20_RequestsTimeOut ==
    proc.script \in DownloadScripts =>
        /\ \A i \in 1..Len(proc.requests) : proc.requests[i].timeout # NoTimeout
        /\ proc.end = "exit"
        /\ proc.reply.kind = "silence" => ArtifactOf(proc.script) \in proc.wrote

\* C21: a download script run issues at most one request, whatever the
\* remote does with it: one when it has a token, none when it has not; after
\* a timeout, a network exception or a status that is no success the run
\* ends with that one request issued.
C21_NoRetry ==
    proc.script \in DownloadScripts =>
        /\ Len(proc.requests) <= 1
        /\ HasToken(proc.env) => Len(proc.requests) = 1
        /\ ~HasToken(proc.env) => proc.requests = <<>>

\* C21 witness: download_modis.py whose request got no answer within the
\* timeout: one request issued, the fallback artifact written.
C21_Witness ==
    /\ proc.script = "download_modis"
    /\ proc.reply.kind = "silence"
    /\ Len(proc.requests) = 1
    /\ proc.requests[1].timeout = SearchTimeout
    /\ "modis_metadata.json" \in proc.wrote
    /\ proc.end = "exit"

\* ---------------------------------------------------------- train_model.py
\* DataFrame.to_csv writes a missing cell as the empty field, and read_csv
\* reads the empty field as a missing cell; a date is written as its text,
\* which the training script never parses (the day number stands for it).
EmptyField == -2

\* preprocess_data.py line 220: df.to_csv(output_file, index=False)
to_csv(df) ==
    DF(df.cols,
       [i \in 1..Len(df.rows) |->
           [c \in DOMAIN df.rows[i] |->
               IF IsNa(df.rows[i][c]) THEN EmptyField ELSE df.rows[i][c]]])

\* line 29: pd.read_csv(INPUT_FILE)
read_csv(file) ==
    DF(file.cols,
       [i \in 1..Len(file.rows) |->
           [c \in DOMAIN file.rows[i] |->
               IF file.rows[i][c] = EmptyField THEN NaN ELSE file.rows[i][c]]])

\* lines 20-33: load_data; None when the file does not exist
load_data(file) == IF file = None THEN None ELSE read_csv(file)

\* lines 40-45
FeatureCols == <<"precipitation", "day_of_year", "month", "precip_7d_sum">>

\* X.mean() of one column: the mean of its cells that are not missing,
\* missing when there is none
ColumnMean(rows, c) ==
    LET valid == SelectSeq([i \in 1..Len(rows) |-> rows[i][c]], LAMBDA v : ~IsNa(v))
    IN  IF valid = <<>> THEN NaN ELSE SumSeq(valid) \div Len(valid)

\* X.fillna(X.mean()): a missing cell takes the mean of its column
FillNa(X) ==
    DF(X.cols,
       [i \in 1..Len(X.rows) |->
           [c \in DOMAIN X.rows[i] |->
               IF IsNa(X.rows[i][c]) THEN ColumnMean(X.rows, c) ELSE X.rows[i][c]]])

\* what prepare_features gives when a column it selects is not in the table
KeyError(c) ==
    [df |-> None, X |-> None, y |-> <<>>, feature_cols |-> <<>>, raised |-> c]

\* lines 35-67: prepare_features; df is the table after line 55 (the target
\* column added, the last row dropped)
prepare_features(df) ==
    LET feature_cols == FeatureCols \o (IF HasCol(df, "ndvi") THEN <<"ndvi">> ELSE <<>>)
        n == Len(df.rows)
    IN  IF ~HasCol(df, "soil_moisture") THEN KeyError("soil_moisture")
        ELSE LET target == [i \in 1..n |->
                               IF i < n THEN df.rows[i + 1]["soil_moisture"] ELSE NaN]
                 shifted == WithCol(df, "target", target)
                 cut == DF(shifted.cols, SubSeq(shifted.rows, 1, n - 1))
                 absent == SelectSeq(feature_cols, LAMBDA c : ~HasCol(cut, c))
             IN  IF absent # <<>> THEN KeyError(Head(absent))
                 ELSE [df |-> cut,
                       X |-> FillNa(DF(feature_cols,
                                       [i \in 1..Len(cut.rows) |->
                                           [c \in Range(feature_cols) |-> cut.rows[i][c]]])),
                       y |-> [i \in 1..Len(cut.rows) |-> cut.rows[i]["target"]],
                       feature_cols |-> feature_cols,
                       raised |-> "none"]

\* --------------------------------------- the training preparation alone
\* merge_datasets lines 193-210 and prepare_features as functions of the
\* joined table: tables of TrainDays consecutive days with any subset of the
\* SMAP, MODIS and IMERG columns, each cell set or missing.  The soil
\* moisture of day i is 420 * i, so that a target tells its day;
\* precipitation is 6 mm, so that the mean of up to 3 rolling sums is exact.
TrainValue(c, i) ==
    CASE c = "soil_moisture" -> 420 * i
      [] c = "source" -> Simulated
      [] c = "ndvi" -> 500
      [] c = "precipitation" -> 6

TrainPrimary == <<"soil_moisture", "source", "ndvi", "precipitation">>

TrainColumnSets ==
    {P \in SUBSET Range(TrainPrimary) : ("source" \in P) <=> ("soil_moisture" \in P)}

TrainTables ==
    UNION {{DF(<<"date">> \o SelectSeq(TrainPrimary, LAMBDA c : c \in P),
               [i \in 1..TrainDays |->
                   [c \in P \cup {"date"} |->
                       IF c = "date" THEN i
                       ELSE IF c = "source" \/ set[i][c] THEN TrainValue(c, i)
                       ELSE NaN]]) :
               set \in [1..TrainDays -> [P \ {"source"} -> BOOLEAN]]} :
           P \in TrainColumnSets}

TrainInit ==
    /\ RunIdle
    /\ align = AlignIdle
    /\ fuse = FuseIdle
    /\ fetch = FetchIdle
    /\ disease = DiseaseIdle
    /\ train \in [pc : {"input"}, tbl : TrainTables, kept : {None}, df : {None},
                  X : {None}, y : {<<>>}, feature_cols : {<<>>}, raised : {"none"}]

\* preprocess_data.py: the features derived, the rows filtered
TrainFuse ==
    /\ train.pc = "input"
    /\ train' = [train EXCEPT !.pc = "fused",
                              !.kept = CompletenessFilter(DerivedFeatures(train.tbl))]
    /\ UNCHANGED <<runVars, align, fuse, fetch, disease>>

\* train_model.py main, lines 165-171, over the table preprocess_data.py
\* saved (it saves a table that is not empty)
TrainPrepare ==
    /\ train.pc = "fused"
    /\ ~IsEmpty(train.kept)
    /\ LET r == prepare_features(load_data(to_csv(train.kept)))
       IN  train' = [train EXCEPT !.pc = "prepared", !.df = r.df, !.X = r.X, !.y = r.y,
                                  !.feature_cols = r.feature_cols, !.raised = r.raised]
    /\ UNCHANGED <<runVars, align, fuse, fetch, disease>>

TrainNext == TrainFuse \/ TrainPrepare

TrainSpec == TrainInit /\ [][TrainNext]_vars

C23_WrittenTableHasFeatureColumns ==
    (PreprocessReturned /\ "merged_features.csv" \in proc.wrote) =>
        /\ \A c \in Range(FeatureCols) \cup {"soil_moisture"} : HasCol(csv, c)
        /\ prepare_features(load_data(to_csv(csv))).raised = "none"

\* load_landsat_data returned the observed series of landsat_ndvi.json
LandsatObserved(d) == d.landsat_ndvi.exists /\ Len(d.landsat_ndvi.data) > 0

\* C24: when landsat_ndvi.json holds observed records, the fused table has
\* the column landsat_ndvi, in every row the ndvi of the latest record dated
\* on or before the row (forward fill), and combined_ndvi takes it in: the
\* observed series is carried like the simulated one.
C24_ObservedLandsatCarried ==
    (PreprocessReturned /\ LandsatObserved(disk)) =>
        /\ merged # None
        /\ HasCol(merged, "landsat_ndvi")
        /\ \A i \in 1..Len(merged.rows) :
              merged.rows[i]["landsat_ndvi"]
                  = MostRecent(landsat_df, "ndvi", merged.rows[i]["date"])
        /\ HasCol(merged, "combined_ndvi")
        /\ \A i \in 1..Len(merged.rows) : CombinedIsMean(merged.rows[i])

\* --------------------------- download_imerg.py and download_landsat.py,
\* run any number of times (up to MaxRuns) in any order over one disk, then
\* load_landsat_data.  The CMR entries are dated on day 1 or 2 or carry no
\* time_start, with a cloud cover below the limit, at the limit, or none;
\* the long answers list one entry more than the metadata stores, entry i
\* dated on day i, at most one of them cloudy.
FetchEntries ==
    [time_start : {[day |-> 1, tod |-> 1], NoTimeStart},
     has_cloud : {TRUE}, cloud_cover : {10, CloudLimit}]
    \cup
    {[time_start |-> [day |-> 2, tod |-> 1], has_cloud |-> FALSE, cloud_cover |-> 0]}

LongEntryLists ==
    {[i \in 1..(MaxStoredScenes + 1) |->
         [time_start |-> [day |-> i, tod |-> 1], has_cloud |-> TRUE,
          cloud_cover |-> IF i = k THEN 40 ELSE 10]] : k \in 0..(MaxStoredScenes + 1)}

FetchAnswers ==
    [kind : {"http"}, status : {200},
     entries : UNION {[1..n -> FetchEntries] : n \in 0..MaxEntries} \cup LongEntryLists]
        \cup [kind : {"http"}, status : {500}, entries : {<<>>}]
        \cup [kind : {"exception", "silence"}, status : {0}, entries : {<<>>}]

FetchEnvs ==
    {NoEnv, [NASA_EARTHDATA_TOKEN |-> "token-1", EXPO_PUBLIC_NASA_EARTHDATA_TOKEN |-> Unset]}

FetchInit ==
    /\ RunIdle
    /\ align = AlignIdle
    /\ fuse = FuseIdle
    /\ train = TrainIdle
    /\ disease = DiseaseIdle
    /\ fetch = [FetchIdle EXCEPT !.pc = "run"]

\* python download_imerg.py
FetchImerg ==
    /\ fetch.pc = "run"
    /\ fetch.runs < MaxRuns
    /\ \E env \in FetchEnvs, reply \in Replies :
          LET r == ImergRun(fetch.disk, env, reply)
          IN  fetch' = [fetch EXCEPT !.disk = r.disk, !.proc = r.proc,
                                     !.answer = NoAnswer, !.runs = @ + 1]
    /\ UNCHANGED <<runVars, align, fuse, train, disease>>

\* python download_landsat.py
FetchLandsat ==
    /\ fetch.pc = "run"
    /\ fetch.runs < MaxRuns
    /\ \E env \in FetchEnvs, answer \in FetchAnswers :
          LET r == LandsatRun(fetch.disk, env, answer)
          IN  fetch' = [fetch EXCEPT !.disk = r.disk, !.proc = r.proc,
                                     !.answer = IF HasToken(env) THEN answer ELSE NoAnswer,
                                     !.runs = @ + 1]
    /\ UNCHANGED <<runVars, align, fuse, train, disease>>

\* python preprocess_data.py: load_landsat_data
FetchLoad ==
    /\ fetch.pc = "run"
    /\ \E landsat_ndvi \in Draws(SimulatesLandsat(fetch.disk), CadenceCount, NdviVals),
          cloud \in Draws(SimulatesLandsat(fetch.disk), CadenceCount, SimCloudVals) :
          fetch' = [fetch EXCEPT
                       !.pc = "loaded",
                       !.landsat_df = load_landsat_data(fetch.disk, landsat_ndvi, cloud)]
    /\ UNCHANGED <<runVars, align, fuse, train, disease>>

FetchNext == FetchImerg \/ FetchLandsat \/ FetchLoad

FetchSpec == FetchInit /\ [][FetchNext]_vars

\* C26: when the metadata the latest Landsat search left records the
\* fallback (status no_data) or no scene under the cloud limit,
\* load_landsat_data does not return an observed series: none that an
\* earlier search left in landsat_ndvi.json.
C26_StaleSeriesNotReturned ==
    (/\ fetch.pc = "loaded"
     /\ fetch.disk.landsat_meta.exists
     /\ \/ fetch.disk.landsat_meta.status = "no_data"
        \/ fetch.disk.landsat_meta.clear_scenes = 0) =>
        ~HasCol(fetch.landsat_df, "ndvi")

\* the cloud cover the script takes for an entry
CloudOf(entry) == IF entry.has_cloud THEN entry.cloud_cover ELSE 0

\* the run went through create_fallback_metadata: a network exception or a
\* timeout, a status other than 200, no result, or an exception raised by a
\* result (an IMERG granule that is no object, a clear Landsat scene without
\* time_start)
ImergFallback(reply) ==
    reply.kind # "http" \/ reply.status # 200 \/ reply.results = 0 \/ ~reply.valid

LandsatFallback(answer) ==
    \/ answer.kind # "http" \/ answer.status # 200 \/ Len(answer.entries) = 0
    \/ \E i \in 1..Len(answer.entries) :
          /\ CloudOf(answer.entries[i]) < 30
          /\ answer.entries[i].time_start = NoTimeStart

\* C27: an IMERG or Landsat run with a token ends normally, no exception
\* uncaught, and has written the metadata artifact of its source; what the
\* artifact holds at the end has status no_data exactly when the run went
\* through the fallback, also when the metadata of a success had been
\* written before the exception.
C27_FallbackIffNoData ==
    LET p == fetch.proc
    IN  /\ (p.script \in {"download_imerg", "download_landsat"} /\ HasToken(p.env)) =>
              /\ p.end = "exit" /\ p.status = ExitOk /\ ~p.uncaught
              /\ ArtifactOf(p.script) \in p.wrote
        /\ (p.script = "download_imerg" /\ HasToken(p.env)) =>
              /\ fetch.disk.imerg
              /\ fetch.disk.imerg_status = "no_data" <=> ImergFallback(p.reply)
        /\ (p.script = "download_landsat" /\ HasToken(p.env)) =>
              /\ fetch.disk.landsat_meta.exists
              /\ fetch.disk.landsat_meta.status = "no_data" <=> LandsatFallback(fetch.answer)

\* C27 witness: an IMERG run answered with a granule that is no object,
\* after an IMERG run that succeeded: imerg_metadata.json was written twice
\* in the run and holds no_data, imerg_precip.json was not written.
C27_Witness ==
    /\ fetch.runs = 2
    /\ fetch.proc.script = "download_imerg"
    /\ fetch.proc.reply.status = 200 /\ fetch.proc.reply.results = 1
    /\ ~fetch.proc.reply.valid
    /\ fetch.disk.imerg_status = "no_data"
    /\ fetch.proc.wrote = {"data/imerg/raw", "imerg_metadata.json"}

\* the entries of the answer the script keeps
KeptEntries(answer) == SelectSeq(answer.entries, LAMBDA e : CloudOf(e) < 30)

\* C28: in a Landsat search run a scene is kept exactly when its cloud cover
\* (0 without the field) is below 30: the metadata of a success counts the
\* entries and the kept scenes, clear_scenes <= total_scenes, and stores the
\* first 10 kept scenes at most; landsat_ndvi.json is written only with a
\* kept scene and then holds one record per kept scene, in their order, with
\* the date and the cloud cover of the scene.
C28_ClearSceneFilter ==
    LET p == fetch.proc
        kept == KeptEntries(fetch.answer)
        meta == fetch.disk.landsat_meta
        data == fetch.disk.landsat_ndvi.data
    IN  (p.script = "download_landsat" /\ HasToken(p.env)) =>
            /\ meta.status = "none" =>
                  /\ meta.total_scenes = Len(fetch.answer.entries)
                  /\ meta.clear_scenes = Len(kept)
                  /\ meta.clear_scenes <= meta.total_scenes
                  /\ Len(meta.scenes) <= 10
                  /\ Len(meta.scenes) = (IF Len(kept) < 10 THEN Len(kept) ELSE 10)
                  /\ \A i \in 1..Len(meta.scenes) :
                        /\ meta.scenes[i].date = kept[i].time_start
                        /\ meta.scenes[i].cloud_cover = CloudOf(kept[i])
            /\ "landsat_ndvi.json" \in p.wrote =>
                  /\ Len(kept) >= 1
                  /\ Len(data) = Len(kept)
                  /\ \A i \in 1..Len(kept) :
                        /\ data[i].date = kept[i].time_start.day
                        /\ data[i].cloud_cover = CloudOf(kept[i])

\* C28 witness: an answer of 11 entries of which the 3rd is cloudy: 10 scenes
\* kept, all 10 stored, 10 records written; the record after the cloudy
\* entry is the one of the 4th entry.
C28_Witness ==
    /\ fetch.proc.script = "download_landsat"
    /\ Len(fetch.answer.entries) = 11
    /\ fetch.answer.entries[3].cloud_cover = 40
    /\ fetch.disk.landsat_meta.total_scenes = 11
    /\ fetch.disk.landsat_meta.clear_scenes = 10
    /\ Len(fetch.disk.landsat_meta.scenes) = 10
    /\ "landsat_ndvi.json" \in fetch.proc.wrote
    /\ Len(fetch.disk.landsat_ndvi.data) = 10
    /\ fetch.disk.landsat_ndvi.data[3].date = 4

\* ------------------------------- model-training/train_disease_model.py
\* A class name is the name of a directory of the dataset: a sequence of
\* words (joined by '_' in the name).  The words stand for the ways a name
\* can meet the keywords: in another case, inside a longer word, not at all.
Words == {"Bacterial", "Healthy", "Mosaic", "Tomato", "YellowLeaf", "spotted"}

\* the words in the order of their text (capitals sort before small letters)
WordOrder == <<"Bacterial", "Healthy", "Mosaic", "Tomato", "YellowLeaf", "spotted">>

ClassNames == {<<a>> : a \in Words} \cup {<<a, b>> : a \in Words, b \in Words}

WordRank(w) == CHOOSE i \in 1..Len(WordOrder) : WordOrder[i] = w

\* the text of name a sorts before the text of name b
RECURSIVE NameLess(_, _)
NameLess(a, b) ==
    IF a = <<>> THEN b # <<>>
    ELSE IF b = <<>> THEN FALSE
    ELSE IF Head(a) = Head(b) THEN NameLess(Tail(a), Tail(b))
    ELSE WordRank(Head(a)) < WordRank(Head(b))

\* flow_from_directory lists the classes in the order of their names
RECURSIVE SortedNames(_)
SortedNames(S) ==
    IF S = {} THEN <<>>
    ELSE LET first == CHOOSE n \in S : \A m \in S \ {n} : NameLess(n, m)
         IN  <<first>> \o SortedNames(S \ {first})

RECURSIVE SetsUpTo(_)
SetsUpTo(k) ==
    IF k = 0 THEN {{}}
    ELSE LET smaller == SetsUpTo(k - 1)
         IN  smaller \cup {S \cup {n} : S \in smaller, n \in ClassNames}

\* the class directories a downloaded dataset can hold
Datasets == SetsUpTo(MaxClasses) \ {{}}

\* str.lower() of a word
Lower(w) ==
    CASE w = "Bacterial" -> "bacterial"
      [] w = "Healthy" -> "healthy"
      [] w = "Mosaic" -> "mosaic"
      [] w = "Tomato" -> "tomato"
      [] w = "YellowLeaf" -> "yellowleaf"
      [] OTHER -> w

\* `x in word` for a keyword x and a word in small letters
Within(x, word) ==
    x = word \/ <<x, word>> \in {<<"spot", "spotted">>, <<"yellow", "yellowleaf">>}

\* `x in class_name_lower`
InLowered(x, class_name) ==
    \E i \in 1..Len(class_name) : Within(x, Lower(class_name[i]))

\* line 333
FungalKeywords == {"blight", "spot", "rust", "mold", "mildew", "scab"}

\* line 337
ViralKeywords == {"virus", "mosaic", "curl"}

\* the rules with 'bacterial' tested before the fungal keywords
TreatmentOfBacterialFirst(class_name) ==
    IF InLowered("healthy", class_name) THEN "healthy"
    ELSE IF InLowered("bacterial", class_name) THEN "default_bacterial"
    ELSE IF \E x \in FungalKeywords : InLowered(x, class_name) THEN "default_fungal"
    ELSE IF \E x \in ViralKeywords : InLowered(x, class_name) THEN "default_viral"
    ELSE IF InLowered("yellow", class_name) \/ InLowered("deficiency", class_name)
    THEN "nutrient_deficiency"
    ELSE "default_fungal"

\* lines 329-343: the key of treatments_template chosen for a class
TreatmentOf(class_name) ==
    IF InLowered("healthy", class_name) THEN "healthy"
    ELSE IF \E x \in FungalKeywords : InLowered(x, class_name) THEN "default_fungal"
    ELSE IF InLowered("bacterial", class_name) THEN "default_bacterial"
    ELSE IF \E x \in ViralKeywords : InLowered(x, class_name) THEN "default_viral"
    ELSE IF InLowered("yellow", class_name) \/ InLowered("deficiency", class_name)
    THEN "nutrient_deficiency"
    ELSE "default_fungal"

\* line 91 without the test of Path(dataset_path).exists()
PathUsableUnchecked(dataset_path, exists) == dataset_path # ""

\* line 91: dataset_path is set and exists ("" stands for None and '')
PathUsable(dataset_path, exists) == dataset_path # "" /\ exists

DiseaseInit ==
    /\ RunIdle
    /\ align = AlignIdle
    /\ fuse = FuseIdle
    /\ train = TrainIdle
    /\ fetch = FetchIdle
    /\ disease = [DiseaseIdle EXCEPT !.pc = "kagglehub", !.wrote = {"assets/models"}]

\* lines 60-66: kagglehub.dataset_download returns a path (which may be
\* empty, or name nothing that exists) or raises
TryKagglehub ==
    /\ disease.pc = "kagglehub"
    /\ \/ \E path \in {"", "kagglehub-cache/plantdisease"}, exists \in BOOLEAN :
             /\ path = "" => ~exists
             /\ disease' = [disease EXCEPT !.pc = "check", !.tried = <<"kagglehub">>,
                                           !.dataset_path = path, !.exists = exists,
                                           !.obtained = "kagglehub"]
       \/ disease' = [disease EXCEPT !.pc = "kaggle", !.tried = <<"kagglehub">>,
                                     !.raised = {"kagglehub"}]
    /\ UNCHANGED <<runVars, align, fuse, train, fetch>>

\* lines 69-89: the kaggle API after kagglehub raised; it raises before or
\* after os.makedirs(download_path), and then exit(1) ends the process
TryKaggleApi ==
    /\ disease.pc = "kaggle"
    /\ \/ disease' = [disease EXCEPT !.pc = "check", !.tried = @ \o <<"kaggle">>,
                                     !.dataset_path = "model-training/dataset",
                                     !.exists = TRUE, !.obtained = "kaggle",
                                     !.wrote = @ \cup {"model-training/dataset"}]
       \/ \E made \in SUBSET {"model-training/dataset"} :
             disease' = [disease EXCEPT !.pc = "exited", !.tried = @ \o <<"kaggle">>,
                                        !.raised = @ \cup {"kaggle"},
                                        !.status = ExitFailure, !.wrote = @ \cup made]
    /\ UNCHANGED <<runVars, align, fuse, train, fetch>>

\* lines 91-93
CheckPath ==
    /\ disease.pc = "check"
    /\ IF PathUsable(disease.dataset_path, disease.exists)
       THEN disease' = [disease EXCEPT !.pc = "data"]
       ELSE disease' = [disease EXCEPT !.pc = "exited", !.status = ExitFailure]
    /\ UNCHANGED <<runVars, align, fuse, train, fetch>>

\* lines 96-156: the generators over the class directories, labels.json
LoadClasses ==
    /\ disease.pc = "data"
    /\ \E classes \in Datasets :
          disease' = [disease EXCEPT !.pc = "model", !.generators = TRUE,
                                     !.class_labels = SortedNames(classes),
                                     !.wrote = @ \cup {"labels.json"}]
    /\ UNCHANGED <<runVars, align, fuse, train, fetch>>

\* lines 162-252: the model built, trained, evaluated, converted and saved
TrainDiseaseModel ==
    /\ disease.pc = "model"
    /\ disease' = [disease EXCEPT !.pc = "treatments",
                                  !.wrote = @ \cup {"best_model.h5", "plant_disease_model.tflite"}]
    /\ UNCHANGED <<runVars, align, fuse, train, fetch>>

\* lines 328-343: one turn of the loop over class_labels; treatments is the
\* dict, listed as the sequence of its items
AddTreatment ==
    /\ disease.pc = "treatments"
    /\ Len(disease.treatments) < Len(disease.class_labels)
    /\ LET class_name == disease.class_labels[Len(disease.treatments) + 1]
       IN  disease' = [disease EXCEPT !.treatments =
                          Append(SelectSeq(@, LAMBDA item : item.key # class_name),
                                 [key |-> class_name, value |-> TreatmentOf(class_name)])]
    /\ UNCHANGED <<runVars, align, fuse, train, fetch>>

\* lines 345-348: treatments.json
SaveTreatments ==
    /\ disease.pc = "treatments"
    /\ Len(disease.treatments) = Len(disease.class_labels)
    /\ disease' = [disease EXCEPT !.pc = "done", !.wrote = @ \cup {"treatments.json"}]
    /\ UNCHANGED <<runVars, align, fuse, train, fetch>>

DiseaseNext ==
    \/ TryKagglehub
    \/ TryKaggleApi
    \/ CheckPath
    \/ LoadClasses
    \/ TrainDiseaseModel
    \/ AddTreatment
    \/ SaveTreatments

DiseaseSpec == DiseaseInit /\ [][DiseaseNext]_vars

\* C29: every class label gets exactly one treatment entry, in the order of
\* the labels, so that treatments.json holds exactly the class names of
\* labels.json as keys; the entry of a class is that of the first rule, in
\* the order healthy, fungal keywords, bacterial, viral keywords, yellow or
\* deficiency, that has a keyword inside the name in small letters, and the
\* fungal default when no rule has one.
C29_FirstMatchingRule ==
    LET rules == << [keywords |-> {"healthy"}, entry |-> "healthy"],
                    [keywords |-> {"blight", "spot", "rust", "mold", "mildew", "scab"},
                     entry |-> "default_fungal"],
                    [keywords |-> {"bacterial"}, entry |-> "default_bacterial"],
                    [keywords |-> {"virus", "mosaic", "curl"}, entry |-> "default_viral"],
                    [keywords |-> {"yellow", "deficiency"}, entry |-> "nutrient_deficiency"] >>
        Matches(k, name) == \E x \in rules[k].keywords : InLowered(x, name)
        Entry(name) ==
            IF \E k \in 1..Len(rules) : Matches(k, name)
            THEN rules[CHOOSE k \in 1..Len(rules) :
                          /\ Matches(k, name)
                          /\ \A j \in 1..(k - 1) : ~Matches(j, name)].entry
            ELSE "default_fungal"
    IN  /\ Len(disease.treatments) <= Len(disease.class_labels)
        /\ \A k \in 1..Len(disease.treatments) :
              /\ disease.treatments[k].key = disease.class_labels[k]
              /\ disease.treatments[k].value = Entry(disease.class_labels[k])
        /\ "treatments.json" \in disease.wrote =>
              /\ "labels.json" \in disease.wrote
              /\ {disease.treatments[k].key : k \in 1..Len(disease.treatments)}
                    = {disease.class_labels[k] : k \in 1..Len(disease.class_labels)}
              /\ Len(disease.treatments) = Len(disease.class_labels)

\* treatments.json written for a class named with 'Bacterial' and 'spotted'
\* (the fungal rule comes first) and a class whose only keyword is inside
\* 'YellowLeaf'
C29_Witness ==
    /\ disease.pc = "done"
    /\ "treatments.json" \in disease.wrote
    /\ \E k \in 1..Len(disease.treatments) :
          /\ disease.treatments[k].key = <<"Bacterial", "spotted">>
          /\ disease.treatments[k].value = "default_fungal"
    /\ \E k \in 1..Len(disease.treatments) :
          /\ disease.treatments[k].key = <<"Tomato", "YellowLeaf">>
          /\ disease.treatments[k].value = "nutrient_deficiency"

\* C30: kagglehub is tried first and the kaggle API only after kagglehub
\* raised; when both raised, or the path is unset or names nothing that
\* exists, the process has ended with status 1 and no generator, label
\* file, model or treatment was made; the later steps run only with a path
\* that exists, obtained from the one method that did not raise.
C30_AcquisitionOrExit ==
    LET later == {"labels.json", "best_model.h5", "plant_disease_model.tflite",
                  "treatments.json"}
        unusable == disease.dataset_path = "" \/ ~disease.exists
    IN  /\ disease.tried \in {<<>>, <<"kagglehub">>, <<"kagglehub", "kaggle">>}
        /\ Len(disease.tried) = 2 => "kagglehub" \in disease.raised
        /\ disease.raised = {"kagglehub", "kaggle"} =>
              disease.pc = "exited" /\ disease.status = ExitFailure
        /\ disease.pc = "exited" =>
              /\ disease.status = ExitFailure
              /\ disease.raised = {"kagglehub", "kaggle"} \/ unusable
              /\ ~disease.generators
              /\ disease.wrote \cap later = {}
              /\ disease.class_labels = <<>>
        /\ disease.pc \in {"data", "model", "treatments", "done"} =>
              /\ ~unusable
              /\ disease.status = ExitOk
              /\ \/ disease.obtained = "kagglehub" /\ disease.tried = <<"kagglehub">>
                                                    /\ disease.raised = {}
                 \/ disease.obtained = "kaggle" /\ disease.raised = {"kagglehub"}
        /\ disease.generators \/ disease.wrote \cap later # {} =>
              disease.pc \in {"model", "treatments", "done"}

\* the run ended with status 1 because kagglehub returned a path that names
\* nothing on the disk
C30_Witness ==
    /\ disease.pc = "exited"
    /\ disease.status = ExitFailure
    /\ disease.tried = <<"kagglehub">>
    /\ disease.dataset_path # ""
    /\ ~disease.exists
    /\ disease.wrote = {"assets/models"}

====
